---- MODULE Spec2Model ----
(***************************************************************************)
(* Model of ExchangeService (src/src/services/exchange_service.py): one    *)
(* get_best_exchange_rate call fans a request out to every configured      *)
(* provider through an asyncio.Semaphore, gathers the responses in         *)
(* provider order and reduces them to one BestExchangeResult.              *)
(*                                                                         *)
(* A provider is any ExchangeAPIInterface: what its get_exchange_rate does *)
(* is an input of the model (it returns a successful response, returns an  *)
(* error response, raises an Exception, raises a BaseException such as     *)
(* asyncio.CancelledError, or returns None).  Amounts and rates are        *)
(* integers; total_time_ms (wall-clock time) is not modelled.              *)
(***************************************************************************)
EXTENDS Integers, Sequences, FiniteSets, TLC

\* ---------------------------------------------------------------- bounds
MaxProviders == 3
MaxConcurrent == 2
MaxAmount == 1
MaxRate == 2

ProviderNames == <<"API1", "API2", "API3", "API4", "API5", "API6">>
Amounts == (-1)..MaxAmount
Rates == 1..MaxRate

VARIABLES
    api_providers,            \* self.api_providers: sequence of provider names
    max_concurrent_requests,  \* self.max_concurrent_requests
    request,                  \* the ExchangeRequest of the call
    pc,                       \* get_best_exchange_rate: "idle", "gather", "returned", "raised"
    task,                     \* per provider: position of its _get_rate_with_semaphore coroutine
    calls,                    \* per provider: number of get_exchange_rate invocations started
    responses,                \* per provider: what its task produced
    sem_value,                \* asyncio.Semaphore: free slots
    sem_waiters,              \* asyncio.Semaphore: FIFO of tasks waiting in acquire()
    result,                   \* the BestExchangeResult returned
    error,                    \* the exception get_best_exchange_rate propagated
    did,                      \* observation: per provider, what its get_exchange_rate did
    queued,                   \* observation: some task had to wait for a slot
    completed_out_of_order,   \* observation: a task finished before an earlier provider's task
    args,                     \* the raw (source_currency, target_currency, amount) given by a caller
    http,                     \* the HTTP exchange a shipped provider's get_exchange_rate meets
    history,                  \* observation: the earlier calls made on this service, one record each
    other                     \* the frame of a second get_best_exchange_rate call in flight

vars == <<api_providers, max_concurrent_requests, request, pc, task, calls, responses,
          sem_value, sem_waiters, result, error, did, queued, completed_out_of_order,
          args, http, history, other>>

N == Len(api_providers)
Providers == 1..N

\* ------------------------------------------------------------ data model
\* variant: the sentinel spelled "NONE"
SentinelNone == "NONE"

\* the sentinel best_provider of the no-success branch (line 65)
Sentinel == "NINGUNO"

ExchangeRequest(src, dst, amt) ==
    [source_currency |-> src, target_currency |-> dst, amount |-> amt]

ExchangeResponse(name, amt, rate, ok, msg) ==
    [kind |-> "ExchangeResponse", provider_name |-> name, converted_amount |-> amt,
     rate |-> rate, success |-> ok, error_message |-> msg]

BestExchangeResult(name, rate, amt, req, total, okCount, failCount) ==
    [best_provider |-> name, best_rate |-> rate, best_converted_amount |-> amt,
     source_currency |-> req.source_currency, target_currency |-> req.target_currency,
     original_amount |-> req.amount, total_providers_queried |-> total,
     successful_providers |-> okCount, failed_providers |-> failCount]

Pending == [kind |-> "pending"]
NoneValue == [kind |-> "None"]
BaseExceptionRaised == [kind |-> "BaseException"]
NoResult == [kind |-> "none"]
NoArgs == [kind |-> "none"]
NoHttp == [kind |-> "none"]
NoFrame == [kind |-> "none"]

\* ExchangeAPIInterface._create_error_response
\* (in the responses the service handles, an error_message is the sequence of
\* its parts and None is the empty sequence)
NoMessage == <<>>

CreateErrorResponse(name) == ExchangeResponse(name, 0, 0, FALSE, <<"provider error">>)

\* str(e) of an exception a provider raises: empty for an exception built
\* without arguments, otherwise its text
ExceptionTexts == {"", "Connection refused"}

\* variant: the message also names the provider
UnexpectedErrorResponseNamed(name, text) ==
    ExchangeResponse(name, 0, 0, FALSE, <<"Error inesperado: ", name, text>>)

\* the except branch of _get_rate_with_semaphore (lines 119-126); the message
\* f"Error inesperado: {str(e)}" is the sequence of its parts
UnexpectedErrorResponse(name, text) ==
    ExchangeResponse(name, 0, 0, FALSE, <<"Error inesperado: ", text>>)


\* ------------------------------------------------ reduction (lines 54-96)
IsWellFormed(r) == r.kind = "ExchangeResponse"

\* variant: the filter on r.success left out
SuccessfulResponsesAny(rs) == rs

\* successful_responses = [r for r in responses if r.success]
successful_responses(rs) == SelectSeq(rs, LAMBDA r : r.success)

\* successful_count = len(successful_responses)
successful_count(rs) == Len(successful_responses(rs))

\* variant: every response counted as failed
FailedCountAll(rs) == Len(rs)

\* failed_count = len(responses) - successful_count
failed_count(rs) == Len(rs) - successful_count(rs)

\* Python's max(seq, key=...) on a non-empty sequence: scan left to right and
\* replace the candidate only by a strictly larger key, so the first maximal
\* element is returned.
RECURSIVE MaxFrom(_, _, _)
MaxFrom(rs, k, best) ==
    IF k > Len(rs) THEN best
    ELSE IF rs[k].converted_amount > best.converted_amount
         THEN MaxFrom(rs, k + 1, rs[k])
         ELSE MaxFrom(rs, k + 1, best)

\* variant: the candidate is replaced on >=, so the last maximal element wins
RECURSIVE MaxFromLast(_, _, _)
MaxFromLast(rs, k, best) ==
    IF k > Len(rs) THEN best
    ELSE IF rs[k].converted_amount >= best.converted_amount
         THEN MaxFromLast(rs, k + 1, rs[k])
         ELSE MaxFromLast(rs, k + 1, best)

PyMaxLast(rs) == MaxFromLast(rs, 2, rs[1])

\* variant: the key of the comparison is the rate
RECURSIVE MaxFromByRate(_, _, _)
MaxFromByRate(rs, k, best) ==
    IF k > Len(rs) THEN best
    ELSE IF rs[k].rate > best.rate
         THEN MaxFromByRate(rs, k + 1, rs[k])
         ELSE MaxFromByRate(rs, k + 1, best)

PyMaxByRate(rs) == MaxFromByRate(rs, 2, rs[1])

PyMax(rs) == MaxFrom(rs, 2, rs[1])

\* best_response = max(successful_responses, key=lambda r: r.converted_amount)
best_response(rs) == PyMax(successful_responses(rs))

\* variant: the no-success branch reporting failed_providers = 0
NoSuccessResultZeroFailed(req, n) == BestExchangeResult(Sentinel, 0, 0, req, n, 0, 0)

\* the result of the "if not successful_responses" branch
NoSuccessResult(req, n) == BestExchangeResult(Sentinel, 0, 0, req, n, 0, n)

\* the result built from best_response
BestOfferResult(req, rs, n) ==
    LET b == best_response(rs)
    IN  BestExchangeResult(b.provider_name, b.rate, b.converted_amount, req, n,
                           successful_count(rs), failed_count(rs))

\* variant: a best offer that is not positive is reported as no offer
ReducePositiveOffers(req, rs, n) ==
    IF successful_responses(rs) = <<>> THEN NoSuccessResult(req, n)
    ELSE IF best_response(rs).converted_amount <= 0 THEN NoSuccessResult(req, n)
    ELSE BestOfferResult(req, rs, n)

\* lines 54-96 on a list of well-formed responses
Reduce(req, rs, n) ==
    IF successful_responses(rs) = <<>> THEN NoSuccessResult(req, n)
    ELSE BestOfferResult(req, rs, n)


\* ------------------------------------------------------------- the state
\* ExchangeService.__init__ stores both arguments unchecked; no call is running.
Init ==
    /\ \E n \in 0..MaxProviders : api_providers = SubSeq(ProviderNames, 1, n)
    /\ max_concurrent_requests \in 0..MaxConcurrent
    /\ request = ExchangeRequest("USD", "EUR", 1000)
    /\ pc = "idle"
    /\ task = [i \in Providers |-> "none"]
    /\ calls = [i \in Providers |-> 0]
    /\ responses = [i \in Providers |-> Pending]
    /\ sem_value = 0
    /\ sem_waiters = <<>>
    /\ result = NoResult
    /\ error = "none"
    /\ did = [i \in Providers |-> "nothing"]
    /\ queued = FALSE
    /\ completed_out_of_order = FALSE
    /\ args = NoArgs
    /\ http = NoHttp
    /\ history = <<>>
    /\ other = NoFrame

\* provider i gave a successful response in the call made before this one
SucceededBefore(i) ==
    /\ history # <<>>
    /\ history[Len(history)].responses[i].kind = "ExchangeResponse"
    /\ history[Len(history)].responses[i].success

\* variant: the service keeps the successful responses of its last call and
\* does not query those providers again
GetBestExchangeRateCached ==
    /\ pc = "idle"
    /\ pc' = "gather"
    /\ sem_value' = max_concurrent_requests
    /\ sem_waiters' = <<>>
    /\ task' = [i \in Providers |-> IF SucceededBefore(i) THEN "done" ELSE "created"]
    /\ calls' = [i \in Providers |-> 0]
    /\ responses' = [i \in Providers |->
                        IF SucceededBefore(i) THEN history[Len(history)].responses[i]
                        ELSE Pending]
    /\ UNCHANGED <<args, http, history, other, api_providers, max_concurrent_requests, request,
                   result, error, did, queued, completed_out_of_order>>

\* get_best_exchange_rate, lines 38-49: create the semaphore and one
\* _get_rate_with_semaphore coroutine per provider, then await gather.
GetBestExchangeRate ==
    /\ pc = "idle"
    /\ pc' = "gather"
    /\ sem_value' = max_concurrent_requests
    /\ sem_waiters' = <<>>
    /\ task' = [i \in Providers |-> "created"]
    /\ calls' = [i \in Providers |-> 0]
    /\ responses' = [i \in Providers |-> Pending]
    /\ UNCHANGED <<args, http, history, other, api_providers, max_concurrent_requests, request, result, error,
                   did, queued, completed_out_of_order>>

\* variant: no limit on the slots
CanAcquireUnbounded == TRUE

\* variant: one limit for the whole service, a slot is free only while the
\* calls in flight of both frames together are below it
CanAcquireShared ==
    /\ sem_value > 0
    /\ sem_waiters = <<>>
    /\ IF other.kind = "frame"
       THEN Cardinality({i \in Providers : task[i] = "running"})
              + Cardinality({i \in Providers : other.task[i] = "running"})
                < max_concurrent_requests
       ELSE TRUE

\* asyncio.Semaphore.acquire returns at once when a slot is free and nobody queues
CanAcquire == sem_value > 0 /\ sem_waiters = <<>>

\* the slot is taken and provider.get_exchange_rate(request) is invoked (line 116)
Enter(i) ==
    /\ sem_value' = sem_value - 1
    /\ task' = [task EXCEPT ![i] = "running"]
    /\ calls' = [calls EXCEPT ![i] = @ + 1]
    /\ UNCHANGED <<sem_waiters, responses, queued>>

\* variant: a call that finds no free slot is dropped with an error response
WaitDropped(i) ==
    /\ task' = [task EXCEPT ![i] = "done"]
    /\ responses' = [responses EXCEPT ![i] = UnexpectedErrorResponse(api_providers[i], "")]
    /\ queued' = TRUE
    /\ UNCHANGED <<sem_value, sem_waiters, calls>>

\* no slot: the task queues in the semaphore's FIFO and suspends
Wait(i) ==
    /\ sem_waiters' = Append(sem_waiters, i)
    /\ task' = [task EXCEPT ![i] = "waiting"]
    /\ queued' = TRUE
    /\ UNCHANGED <<sem_value, calls, responses>>

\* first step of a task: "async with semaphore" (line 113).  gather wraps the
\* coroutines in list order and the event loop runs their first steps in that order.
StartTask(i) ==
    /\ task[i] = "created"
    /\ \A k \in 1..(i - 1) : task[k] # "created"
    /\ IF CanAcquire THEN Enter(i) ELSE Wait(i)
    /\ UNCHANGED <<args, http, history, other, api_providers, max_concurrent_requests, request, pc, result, error,
                   did, completed_out_of_order>>

\* a task woken by release() resumes with its slot and invokes the provider
ResumeTask(i) ==
    /\ task[i] = "admitted"
    /\ task' = [task EXCEPT ![i] = "running"]
    /\ calls' = [calls EXCEPT ![i] = @ + 1]
    /\ UNCHANGED <<args, http, history, other, api_providers, max_concurrent_requests, request, pc, responses,
                   sem_value, sem_waiters, result, error, did, queued, completed_out_of_order>>

\* variant: no except clause, an Exception leaves the task like a BaseException
TaskOutcomeNoCatch(i, out) ==
    IF out.kind \in {"Exception", "BaseException"} THEN BaseExceptionRaised
    ELSE IF out.kind = "None" THEN NoneValue
    ELSE IF out.kind = "failed" THEN CreateErrorResponse(api_providers[i])
    ELSE ExchangeResponse(api_providers[i], out.converted_amount, out.rate, TRUE, NoMessage)

\* what the task's coroutine produces for each thing the provider can do
\* (lines 114-126): the provider's own return value, the converted response
\* for an Exception, and a BaseException passes through the except clause.
TaskOutcome(i, out) ==
    IF out.kind = "Exception" THEN UnexpectedErrorResponse(api_providers[i], out.text)
    ELSE IF out.kind = "BaseException" THEN BaseExceptionRaised
    ELSE IF out.kind = "None" THEN NoneValue
    ELSE IF out.kind = "failed" THEN CreateErrorResponse(api_providers[i])
    ELSE ExchangeResponse(api_providers[i], out.converted_amount, out.rate, TRUE, NoMessage)

\* variant: the slot is never given back, a waiting task stays in the queue
ReleaseKeepsSlot(i) ==
    /\ sem_value' = sem_value
    /\ sem_waiters' = sem_waiters
    /\ task' = [task EXCEPT ![i] = "done"]

\* variant: the task that ends cancels the first waiting task
ReleaseCancelsWaiter(i) ==
    IF sem_waiters = <<>>
    THEN /\ sem_value' = sem_value + 1
         /\ sem_waiters' = sem_waiters
         /\ task' = [task EXCEPT ![i] = "done"]
    ELSE /\ sem_value' = sem_value + 1
         /\ sem_waiters' = Tail(sem_waiters)
         /\ task' = [task EXCEPT ![i] = "done", ![Head(sem_waiters)] = "done"]

\* leaving "async with semaphore" (normally or by an exception): release() hands
\* the slot to the first waiter, or frees it when nobody waits
Release(i) ==
    IF sem_waiters = <<>>
    THEN /\ sem_value' = sem_value + 1
         /\ sem_waiters' = sem_waiters
         /\ task' = [task EXCEPT ![i] = "done"]
    ELSE /\ sem_value' = sem_value
         /\ sem_waiters' = Tail(sem_waiters)
         /\ task' = [task EXCEPT ![i] = "done", ![Head(sem_waiters)] = "admitted"]

\* variant: the responses are collected in the order the calls end
FinishAsCompleted(i, out) ==
    /\ task[i] = "running"
    /\ LET k == CHOOSE j \in Providers :
                    responses[j] = Pending /\ \A h \in 1..(j - 1) : responses[h] # Pending
       IN responses' = [responses EXCEPT ![k] = TaskOutcome(i, out)]
    /\ did' = [did EXCEPT ![i] = out.kind]
    /\ Release(i)
    /\ completed_out_of_order' =
           (completed_out_of_order \/ \E k \in 1..(i - 1) : task[k] # "done")
    /\ UNCHANGED <<args, http, history, other, api_providers, max_concurrent_requests, request, pc, calls, result,
                   error, queued>>

\* the provider call of task i ends with outcome out; the task finishes
Finish(i, out) ==
    /\ task[i] = "running"
    /\ responses' = [responses EXCEPT ![i] = TaskOutcome(i, out)]
    /\ did' = [did EXCEPT ![i] = out.kind]
    /\ Release(i)
    /\ completed_out_of_order' =
           (completed_out_of_order \/ \E k \in 1..(i - 1) : task[k] # "done")
    /\ UNCHANGED <<args, http, history, other, api_providers, max_concurrent_requests, request, pc, calls, result,
                   error, queued>>

ProviderSucceeds(i) ==
    \E a \in Amounts, r \in Rates :
        Finish(i, [kind |-> "success", converted_amount |-> a, rate |-> r])

ProviderFails(i) == Finish(i, [kind |-> "failed"])

\* the provider raises an Exception, here one fixed fault
ProviderRaisesException(i) == Finish(i, [kind |-> "Exception", text |-> "Connection refused"])

\* the provider raises an Exception with any of the texts
ProviderRaisesExceptionWithText(i) ==
    \E t \in ExceptionTexts : Finish(i, [kind |-> "Exception", text |-> t])

ProviderRaisesBaseException(i) == Finish(i, [kind |-> "BaseException"])

ProviderReturnsNone(i) == Finish(i, [kind |-> "None"])

\* variant: the await ends with the first finished task
GatherDoneFirstCompleted == \E i \in Providers : task[i] = "done"

\* gather (line 49) returns when every task has returned
GatherDone == \A i \in Providers : task[i] = "done"

\* gather without return_exceptions: the first task that raised ends the await
GatherRaised == \E i \in Providers : responses[i].kind = "BaseException"

\* line 49 raising: the exception leaves get_best_exchange_rate; the other
\* tasks are not cancelled by gather and go on in the event loop
PropagateFault ==
    /\ pc = "gather"
    /\ GatherRaised
    /\ pc' = "raised"
    /\ error' = "CancelledError"
    /\ UNCHANGED <<args, http, history, other, api_providers, max_concurrent_requests, request, task, calls,
                   responses, sem_value, sem_waiters, result, did, queued, completed_out_of_order>>

\* lines 49-96: gather returned the responses in provider order; reading
\* r.success of a value that is no ExchangeResponse raises AttributeError
Aggregate ==
    /\ pc = "gather"
    /\ GatherDone
    /\ ~GatherRaised
    /\ IF \A i \in Providers : IsWellFormed(responses[i])
       THEN /\ pc' = "returned"
            /\ result' = Reduce(request, responses, Len(api_providers))
            /\ error' = error
       ELSE /\ pc' = "raised"
            /\ result' = result
            /\ error' = "AttributeError"
    /\ UNCHANGED <<args, http, history, other, api_providers, max_concurrent_requests, request, task, calls,
                   responses, sem_value, sem_waiters, did, queued, completed_out_of_order>>

Next ==
    \/ GetBestExchangeRate
    \/ \E i \in Providers : StartTask(i)
    \/ \E i \in Providers : ResumeTask(i)
    \/ \E i \in Providers : ProviderSucceeds(i)
    \/ \E i \in Providers : ProviderFails(i)
    \/ \E i \in Providers : ProviderRaisesException(i)
    \/ \E i \in Providers : ProviderRaisesBaseException(i)
    \/ \E i \in Providers : ProviderReturnsNone(i)
    \/ PropagateFault
    \/ Aggregate

Spec == Init /\ [][Next]_vars

\* a successful call; progress and the handling of faults do not depend on the
\* figures it reports, so these behaviours take one offer per provider
ProviderSucceedsWithOffer(i) ==
    Finish(i, [kind |-> "success", converted_amount |-> i, rate |-> 1])

NextFair ==
    \/ GetBestExchangeRate
    \/ \E i \in Providers : StartTask(i)
    \/ \E i \in Providers : ResumeTask(i)
    \/ \E i \in Providers : ProviderSucceedsWithOffer(i)
    \/ \E i \in Providers : ProviderFails(i)
    \/ \E i \in Providers : ProviderRaisesExceptionWithText(i)
    \/ \E i \in Providers : ProviderRaisesBaseException(i)
    \/ \E i \in Providers : ProviderReturnsNone(i)
    \/ PropagateFault
    \/ Aggregate

\* the event loop runs every task that can run, and every provider call that
\* was started comes to an end
SpecFair == Init /\ [][NextFair]_vars /\ WF_vars(NextFair)


\* ----------------------------------------------------------------- claims
\* provider i's task produced a response with success = True / False
Succeeded(i) == responses[i].kind = "ExchangeResponse" /\ responses[i].success
Failed(i) == responses[i].kind = "ExchangeResponse" /\ ~responses[i].success
InFlight == {i \in Providers : task[i] = "running"}

\* C1: whenever get_best_exchange_rate has returned, successful_providers +
\* failed_providers = total_providers_queried = the number of configured
\* providers, in the no-success branch and in the best-offer branch alike.
C1_CountsAddUp ==
    pc = "returned" =>
        /\ result.successful_providers + result.failed_providers
               = result.total_providers_queried
        /\ result.total_providers_queried = Len(api_providers)

\* a returned best offer over a mix: a success, an error response and a raised Exception
C1_Witness ==
    /\ pc = "returned"
    /\ result.best_provider # Sentinel
    /\ \E i, j, k \in Providers :
          did[i] = "success" /\ did[j] = "failed" /\ did[k] = "Exception"

\* C2: when some response succeeded, the returned best_converted_amount is the
\* maximum converted_amount over the successful responses only, and
\* best_provider and best_rate are the name and rate of one successful
\* response with that amount; a failed response is never the one selected.
C2_BestIsMaxOfSuccessful ==
    (pc = "returned" /\ \E i \in Providers : Succeeded(i)) =>
        /\ \A i \in Providers :
              Succeeded(i) => responses[i].converted_amount <= result.best_converted_amount
        /\ \E i \in Providers :
              /\ Succeeded(i)
              /\ responses[i].provider_name = result.best_provider
              /\ responses[i].converted_amount = result.best_converted_amount
              /\ responses[i].rate = result.best_rate

\* the best successful amount is negative, below the 0 of a failed response
C2_Witness ==
    /\ pc = "returned"
    /\ result.best_converted_amount < 0
    /\ result.successful_providers >= 2
    /\ \E j \in Providers : Failed(j) /\ responses[j].converted_amount = 0

\* C3: among the successful responses that share the maximum converted_amount
\* the one of the earliest configured provider is returned, whatever the order
\* in which the calls completed.
C3_FirstOfTiedWins ==
    pc = "returned" =>
        \A i \in Providers :
            ( /\ Succeeded(i)
              /\ responses[i].converted_amount = result.best_converted_amount
              /\ \A k \in 1..(i - 1) :
                    ~(Succeeded(k)
                        /\ responses[k].converted_amount = result.best_converted_amount) )
            => /\ result.best_provider = api_providers[i]
               /\ result.best_rate = responses[i].rate

\* two successful responses tie with different rates and the calls completed out of order
C3_Witness ==
    /\ pc = "returned"
    /\ completed_out_of_order
    /\ \E i, j \in Providers :
          /\ i < j
          /\ Succeeded(i) /\ Succeeded(j)
          /\ responses[i].converted_amount = result.best_converted_amount
          /\ responses[j].converted_amount = result.best_converted_amount
          /\ responses[i].rate # responses[j].rate

\* C4: when every task has finished and every provider produced a response
\* with success = False (returned by the provider or converted from an
\* Exception), get_best_exchange_rate has not raised, and once it has returned
\* the result has best_rate 0, best_converted_amount 0, successful_providers 0
\* and failed_providers N.
C4_AllFailedIsNormalResult ==
    (\A i \in Providers : task[i] = "done" /\ Failed(i)) =>
        /\ pc # "raised"
        /\ pc = "returned" =>
              /\ result.best_rate = 0
              /\ result.best_converted_amount = 0
              /\ result.successful_providers = 0
              /\ result.failed_providers = Len(api_providers)

\* three providers, all failing (an error response or a raised Exception), and a result
C4_Witness ==
    /\ pc = "returned"
    /\ Len(api_providers) = 3
    /\ \A i \in Providers : did[i] \in {"failed", "Exception"}
    /\ \E i \in Providers : did[i] = "failed"
    /\ result.failed_providers = 3

\* C5 as stated: with no successful provider best_provider is the string "NONE".
C5_SentinelIsNONE ==
    (pc = "returned" /\ result.successful_providers = 0) => result.best_provider = "NONE"

\* C5 (amended): when zero providers succeed, best_provider of the returned
\* result is exactly the string "NINGUNO".
C5_SentinelIsNINGUNO ==
    (pc = "returned" /\ result.successful_providers = 0) => result.best_provider = "NINGUNO"

\* a result returned after every provider raised an Exception
C5_Witness ==
    /\ pc = "returned"
    /\ Len(api_providers) >= 2
    /\ \A i \in Providers : did[i] = "Exception"
    /\ result.successful_providers = 0

\* C6: with max_concurrent_requests = C >= 1 and N > C providers, at most C
\* get_exchange_rate calls have started and not yet finished, in every state.
C6_InFlightAtMostC ==
    (max_concurrent_requests >= 1 /\ Len(api_providers) > max_concurrent_requests) =>
        Cardinality(InFlight) <= max_concurrent_requests

\* C slots are all in use and a further task waits for one
C6_Witness ==
    /\ max_concurrent_requests = 2
    /\ Len(api_providers) = 3
    /\ Cardinality(InFlight) = 2
    /\ sem_waiters = <<3>>

\* C7: every provider's get_exchange_rate is invoked exactly once per call: a
\* task that has not got its slot yet has made no call, a task that is running
\* or has finished has made exactly one (so none was skipped, dropped from the
\* queue or retried), and when get_best_exchange_rate has returned every
\* provider has been called exactly once.
C7_EachProviderCalledOnce ==
    /\ \A i \in Providers :
          /\ task[i] \in {"none", "created", "waiting", "admitted"} => calls[i] = 0
          /\ task[i] \in {"running", "done"} => calls[i] = 1
    /\ pc = "returned" => \A i \in Providers : calls[i] = 1

\* N > C, some task queued for a slot, one provider failed and one raised, and a result
C7_Witness ==
    /\ pc = "returned"
    /\ max_concurrent_requests >= 1
    /\ Len(api_providers) > max_concurrent_requests
    /\ queued
    /\ \E i, j \in Providers : did[i] = "failed" /\ did[j] = "Exception"
    /\ \A i \in Providers : calls[i] = 1

\* C8: the reduction of the responses (which either returns the result or
\* fails reading a response) happens only when every task has finished: no
\* result while a call is queued or in flight.
C8_ReduceOnlyAfterAll ==
    (pc = "returned" \/ error = "AttributeError") =>
        \A i \in Providers : task[i] = "done" /\ responses[i].kind # "pending"

\* a result over a success and a failure that completed out of provider order
C8_Witness ==
    /\ pc = "returned"
    /\ completed_out_of_order
    /\ queued
    /\ result.successful_providers >= 1
    /\ result.failed_providers >= 1

\* C9: a provider whose get_exchange_rate raised an Exception gets a response
\* under its own name with success = False, converted_amount 0 and rate 0; that
\* alone never makes get_best_exchange_rate raise, and the returned counts are
\* failed_providers = providers that failed or raised, successful_providers =
\* providers that succeeded, each successful response being kept.
C9_ExceptionBecomesFailedResponse ==
    /\ \A i \in Providers : did[i] = "Exception" =>
          /\ responses[i].kind = "ExchangeResponse"
          /\ responses[i].provider_name = api_providers[i]
          /\ ~responses[i].success
          /\ responses[i].converted_amount = 0
          /\ responses[i].rate = 0
    /\ pc = "raised" => \E i \in Providers : did[i] \in {"BaseException", "None"}
    /\ pc = "returned" =>
          /\ result.failed_providers
                = Cardinality({i \in Providers : did[i] \in {"failed", "Exception"}})
          /\ result.successful_providers
                = Cardinality({i \in Providers : did[i] = "success"})
          /\ \A i \in Providers : did[i] = "success" =>
                /\ Succeeded(i)
                /\ responses[i].converted_amount <= result.best_converted_amount

\* the first provider raised an Exception and the offer of a later one is returned
C9_Witness ==
    /\ pc = "returned"
    /\ Len(api_providers) >= 2
    /\ did[1] = "Exception"
    /\ \E j \in Providers : did[j] = "success" /\ result.best_provider = api_providers[j]
    /\ result.failed_providers = 1

\* C10 as stated: get_best_exchange_rate never propagates an exception,
\* whatever a provider does.
C10_NeverRaises == pc # "raised"


\* ======================================================================
\* The shipped providers (src/src/apis): get_exchange_rate of API1JsonProvider,
\* API2XmlProvider and API3ComplexJsonProvider as functions of the HTTP
\* exchange they meet and of the request.
\* ======================================================================
MaxRequestAmount == 2
RequestAmounts == 1..MaxRequestAmount

ShippedNames == <<"API1_JSON", "API2_XML", "API3_ComplexJSON">>

\* a value of a field of a decoded payload; v is its numeric value, if it has one
Absent == [t |-> "absent", v |-> 0]
Null == [t |-> "null", v |-> 0]
Text == [t |-> "text", v |-> 0]
Container == [t |-> "list or dict", v |-> 0]
BoolTrue == [t |-> "bool", v |-> 1]
Number(n) == [t |-> "number", v |-> n]
NumericText(n) == [t |-> "numeric text", v |-> n]

\* the float value "not a number", and the text "nan" (or the JSON literal
\* NaN) that float() converts to it
NaN == [t |-> "nan", v |-> 0]
NaNText == [t |-> "nan text", v |-> 0]

JsonFieldValues ==
    {Absent, Null, Text, Container, BoolTrue, NaNText}
        \cup {Number(n) : n \in Amounts} \cup {NumericText(n) : n \in Amounts}

\* xmltodict yields text, None (empty element) or a dict (nested elements)
XmlFieldValues ==
    {Absent, Null, Text, Container, NaNText} \cup {NumericText(n) : n \in Amounts}

\* an exception raised inside a provider
Raise(exc) == [kind |-> "raise", exc |-> exc]

\* the classes "except Exception" catches; asyncio.CancelledError is a BaseException
ExceptionClasses ==
    {"TimeoutError", "ClientError", "DecodeError", "TypeError", "ValueError", "KeyError"}

\* variant: only the parse errors are caught, there is no "except Exception"
CaughtOnlyParseErrors(exc) == exc \in {"ValueError", "KeyError", "TimeoutError"}

\* "except Exception as e" (api1 line 56, api2 lines 57 and 63, api3 line 58)
CaughtByExceptException(exc) == exc \in ExceptionClasses

\* Python's float(x)
PyFloat(x) ==
    IF x.t \in {"number", "numeric text", "bool"}
    THEN [kind |-> "value", v |-> x.v, nan |-> FALSE]
    ELSE IF x.t = "nan text" THEN [kind |-> "value", v |-> NaN, nan |-> TRUE]
    ELSE IF x.t = "text" THEN Raise("ValueError")
    ELSE Raise("TypeError")

\* amount * rate in floats: a NaN factor gives NaN
Product(amount, rate) == IF rate.nan THEN NaN ELSE amount * rate.v

\* a rate: the quotient num / den of a float division, kept unevaluated
Quotient(num, den) == [num |-> num, den |-> den]

\* ExchangeAPIInterface._create_error_response with its error_message
\* ("absent" stands for None)
create_error_response(name, error_message) ==
    ExchangeResponse(name, 0, 0, FALSE, error_message)

\* the text of the payload's "message" field
MessageText == "Invalid currency"

\* ---------------------------------------------------------------- API1
API1Payloads ==
    {[t |-> "object", rate |-> f] : f \in JsonFieldValues}
        \cup {[t |-> "null", rate |-> Absent], [t |-> "list", rate |-> Absent]}

\* API1JsonProvider._parse_response (lines 88-104)
API1ParseResponse(p, req) ==
    IF p.t = "null" THEN Raise("TypeError")
    ELSE IF p.t = "list" \/ p.rate.t = "absent"
    THEN create_error_response(ShippedNames[1], "Formato de respuesta invalido de API1")
    ELSE LET rate == PyFloat(p.rate)
         IN  IF rate.kind = "raise"
             THEN IF rate.exc \in {"ValueError", "KeyError"}
                  THEN create_error_response(ShippedNames[1],
                                             "Error al procesar datos de API1")
                  ELSE rate
             ELSE ExchangeResponse(ShippedNames[1], Product(req.amount, rate),
                                   Quotient(rate.v, 1), TRUE, "absent")

\* the body of the try block of API1JsonProvider.get_exchange_rate (lines 35-51)
API1Body(h, req) ==
    IF h.kind = "cancelled" THEN Raise("CancelledError")
    ELSE IF h.kind = "timeout" THEN Raise("TimeoutError")
    ELSE IF h.kind = "network error" THEN Raise("ClientError")
    ELSE IF h.status # 200
    THEN create_error_response(ShippedNames[1], "Error en API1: Codigo de estado")
    ELSE IF h.kind = "unparsable" THEN Raise("DecodeError")
    ELSE API1ParseResponse(h.payload, req)

\* API1JsonProvider.get_exchange_rate (lines 32-58)
API1GetExchangeRate(h, req) ==
    LET r == API1Body(h, req)
    IN  IF r.kind # "raise" THEN r
        ELSE IF r.exc = "TimeoutError"
        THEN create_error_response(ShippedNames[1], "Timeout al conectar con API1")
        ELSE IF CaughtByExceptException(r.exc)
        THEN create_error_response(ShippedNames[1],
                                   "Error al procesar la respuesta de API1")
        ELSE r


\* ---------------------------------------------------------------- API2
\* what xmltodict.parse returned: a dict whose root element may be <XML>
API2Payloads ==
    {[t |-> "object", XML |-> [t |-> "object", Result |-> f]] : f \in XmlFieldValues}
        \cup {[t |-> "object", XML |-> [t |-> k, Result |-> Absent]] :
                 k \in {"absent", "null", "text"}}

\* API2XmlProvider._parse_response (lines 97-117)
API2ParseResponse(p, req) ==
    IF p.XML.t = "absent"
    THEN create_error_response(ShippedNames[2], "Formato de respuesta XML invalido de API2")
    ELSE IF p.XML.t = "null" THEN Raise("TypeError")
    ELSE IF p.XML.t = "text" \/ p.XML.Result.t = "absent"
    THEN create_error_response(ShippedNames[2], "Formato de respuesta XML invalido de API2")
    ELSE LET parsed == PyFloat(p.XML.Result)
         IN  IF parsed.kind = "raise"
             THEN IF parsed.exc \in {"ValueError", "KeyError"}
                  THEN create_error_response(ShippedNames[2],
                                             "Error al procesar datos XML de API2")
                  ELSE parsed
             ELSE ExchangeResponse(ShippedNames[2], parsed.v,
                                   Quotient(parsed.v, req.amount), TRUE, "absent")

\* lines 53-58: xmltodict.parse and _parse_response inside the inner try
API2ParseText(h, req) ==
    LET r == IF h.kind = "unparsable" THEN Raise("DecodeError")
             ELSE API2ParseResponse(h.payload, req)
    IN  IF r.kind = "raise" /\ CaughtByExceptException(r.exc)
        THEN create_error_response(ShippedNames[2], "Error al parsear XML de API2")
        ELSE r

\* the body of the try block of API2XmlProvider.get_exchange_rate (lines 36-58)
API2Body(h, req) ==
    IF h.kind = "cancelled" THEN Raise("CancelledError")
    ELSE IF h.kind = "timeout" THEN Raise("TimeoutError")
    ELSE IF h.kind = "network error" THEN Raise("ClientError")
    ELSE IF h.status # 200
    THEN create_error_response(ShippedNames[2], "Error en API2: Codigo de estado")
    ELSE API2ParseText(h, req)

\* API2XmlProvider.get_exchange_rate (lines 33-65)
API2GetExchangeRate(h, req) ==
    LET r == API2Body(h, req)
    IN  IF r.kind # "raise" THEN r
        ELSE IF r.exc = "TimeoutError"
        THEN create_error_response(ShippedNames[2], "Timeout al conectar con API2")
        ELSE IF CaughtByExceptException(r.exc)
        THEN create_error_response(ShippedNames[2],
                                   "Error al procesar la respuesta de API2")
        ELSE r

\* ---------------------------------------------------------------- API3
\* the envelope {statusCode, message, data: {total}}
API3StatusCodes == {Absent, Number(200), Number(400), NumericText(200)}
API3Messages == {Absent, Null, Text}
API3Datas ==
    {[t |-> "object", total |-> f] : f \in JsonFieldValues}
        \cup {[t |-> k, total |-> Absent] : k \in {"absent", "null"}}

API3Payloads ==
    {[t |-> "object", statusCode |-> c, message |-> m, data |-> d] :
        c \in API3StatusCodes, m \in API3Messages, d \in API3Datas}
        \cup {[t |-> k, statusCode |-> Absent, message |-> Absent,
               data |-> [t |-> "absent", total |-> Absent]] : k \in {"null", "list"}}

\* variant: the embedded status code is not looked at
API3StatusNeverChecked(c) == FALSE

\* response_data["statusCode"] != 200 (line 98)
API3StatusIsNot200(c) == ~(c.t = "number" /\ c.v = 200)

\* response_data.get("message", "Error desconocido en API3") (line 99)
API3ErrorMessage(m) ==
    IF m.t = "absent" THEN "Error desconocido en API3"
    ELSE IF m.t = "null" THEN "absent"
    ELSE MessageText

\* API3ComplexJsonProvider._parse_response (lines 92-117)
API3ParseResponse(p, req) ==
    IF p.t = "null" THEN Raise("TypeError")
    ELSE IF p.t = "list" \/ p.statusCode.t = "absent" \/ p.data.t = "absent"
    THEN create_error_response(ShippedNames[3], "Formato de respuesta invalido de API3")
    ELSE IF p.data.t = "null" THEN Raise("TypeError")
    ELSE IF p.data.total.t = "absent"
    THEN create_error_response(ShippedNames[3], "Formato de respuesta invalido de API3")
    ELSE IF API3StatusIsNot200(p.statusCode)
    THEN create_error_response(ShippedNames[3], API3ErrorMessage(p.message))
    ELSE LET total == PyFloat(p.data.total)
         IN  IF total.kind = "raise"
             THEN IF total.exc \in {"ValueError", "KeyError"}
                  THEN create_error_response(ShippedNames[3],
                                             "Error al procesar datos de API3")
                  ELSE total
             ELSE ExchangeResponse(ShippedNames[3], total.v,
                                   Quotient(total.v, req.amount), TRUE, "absent")

\* the body of the try block of API3ComplexJsonProvider.get_exchange_rate (lines 35-53)
API3Body(h, req) ==
    IF h.kind = "cancelled" THEN Raise("CancelledError")
    ELSE IF h.kind = "timeout" THEN Raise("TimeoutError")
    ELSE IF h.kind = "network error" THEN Raise("ClientError")
    ELSE IF h.status # 200
    THEN create_error_response(ShippedNames[3], "Error en API3: Codigo de estado")
    ELSE IF h.kind = "unparsable" THEN Raise("DecodeError")
    ELSE API3ParseResponse(h.payload, req)

\* API3ComplexJsonProvider.get_exchange_rate (lines 32-60)
API3GetExchangeRate(h, req) ==
    LET r == API3Body(h, req)
    IN  IF r.kind # "raise" THEN r
        ELSE IF r.exc = "TimeoutError"
        THEN create_error_response(ShippedNames[3], "Timeout al conectar con API3")
        ELSE IF CaughtByExceptException(r.exc)
        THEN create_error_response(ShippedNames[3],
                                   "Error al procesar la respuesta de API3")
        ELSE r


\* ------------------------------------------ one provider call in isolation
NoPayload == [t |-> "none"]

Payloads(name) ==
    IF name = ShippedNames[1] THEN API1Payloads
    ELSE IF name = ShippedNames[2] THEN API2Payloads
    ELSE API3Payloads

\* what the HTTP POST of a provider can meet
HttpExchanges(name) ==
    {[kind |-> k, status |-> 0, payload |-> NoPayload] :
        k \in {"network error", "timeout", "cancelled"}}
        \cup {[kind |-> "response", status |-> c, payload |-> NoPayload] : c \in {404, 500}}
        \cup {[kind |-> "unparsable", status |-> 200, payload |-> NoPayload]}
        \cup {[kind |-> "response", status |-> 200, payload |-> p] : p \in Payloads(name)}

\* one shipped provider, a valid request and the exchange its call will meet
InitProvider ==
    /\ \E k \in 1..3 :
          /\ api_providers = <<ShippedNames[k]>>
          /\ http \in HttpExchanges(ShippedNames[k])
    /\ \E a \in RequestAmounts : request = ExchangeRequest("USD", "EUR", a)
    /\ max_concurrent_requests = 1
    /\ pc = "provider call"
    /\ task = <<"none">>
    /\ calls = <<0>>
    /\ responses = <<Pending>>
    /\ sem_value = 0
    /\ sem_waiters = <<>>
    /\ result = NoResult
    /\ error = "none"
    /\ did = <<"nothing">>
    /\ queued = FALSE
    /\ completed_out_of_order = FALSE
    /\ args = NoArgs
    /\ history = <<>>
    /\ other = NoFrame

\* the call returns r, or r leaves it as an exception
ProviderCallEnds(r) ==
    /\ pc = "provider call"
    /\ calls' = <<1>>
    /\ IF r.kind = "raise"
       THEN pc' = "provider raised" /\ error' = r.exc /\ responses' = responses
       ELSE pc' = "provider returned" /\ error' = error /\ responses' = <<r>>
    /\ UNCHANGED <<args, http, history, other, api_providers, max_concurrent_requests, request, task,
                   sem_value, sem_waiters, result, did, queued, completed_out_of_order>>

API1Call ==
    api_providers[1] = ShippedNames[1] /\ ProviderCallEnds(API1GetExchangeRate(http, request))

API2Call ==
    api_providers[1] = ShippedNames[2] /\ ProviderCallEnds(API2GetExchangeRate(http, request))

API3Call ==
    api_providers[1] = ShippedNames[3] /\ ProviderCallEnds(API3GetExchangeRate(http, request))

NextProvider == API1Call \/ API2Call \/ API3Call

SpecProvider == InitProvider /\ [][NextProvider]_vars


\* ------------------------------------------------- claims on the providers
\* the exchange brought a decoded payload with HTTP status 200
GotPayload == http.kind = "response" /\ http.status = 200
ProviderIs(k) == api_providers[1] = ShippedNames[k]
ProviderCallOver == pc \in {"provider returned", "provider raised"}

\* a field that is missing, null or not convertible to a number by float()
FieldUnusable(f) == f.t \in {"absent", "null", "text", "list or dict"}

\* the payload lacks the field the provider reads, or holds an unusable value in it
PayloadUnusable ==
    /\ GotPayload
    /\ \/ ProviderIs(1) /\ (http.payload.t # "object" \/ FieldUnusable(http.payload.rate))
       \/ ProviderIs(2) /\ (http.payload.XML.t # "object"
                               \/ FieldUnusable(http.payload.XML.Result))
       \/ ProviderIs(3) /\ (\/ http.payload.t # "object"
                            \/ http.payload.statusCode.t = "absent"
                            \/ http.payload.data.t # "object"
                            \/ FieldUnusable(http.payload.data.total))

\* C11: for each shipped provider a network error, a timeout, a non-200 status,
\* an unparsable body, or a payload whose field is missing, null or not
\* convertible to a number never leaves get_exchange_rate as an exception: the
\* call returns a response with success = False under the provider's own name.
\* (float() converts numeric text and booleans, so those count as numeric.)
C11_ProviderFailuresAreReturned ==
    ( /\ ProviderCallOver
      /\ \/ http.kind \in {"network error", "timeout", "unparsable"}
         \/ http.kind = "response" /\ http.status # 200
         \/ PayloadUnusable )
    => /\ pc = "provider returned"
       /\ responses[1].kind = "ExchangeResponse"
       /\ ~responses[1].success
       /\ responses[1].provider_name = api_providers[1]

\* API3 met a payload whose data is null: the TypeError was turned into a response
C11_Witness ==
    /\ pc = "provider returned"
    /\ ProviderIs(3)
    /\ GotPayload
    /\ http.payload.t = "object"
    /\ http.payload.data.t = "null"
    /\ ~responses[1].success
    /\ responses[1].error_message = "Error al procesar la respuesta de API3"

\* C12 as stated: every response a shipped provider returns has, when success
\* is False, converted_amount 0, rate 0 and an error_message that is set, and
\* when success is True no error_message.
C12_ResponseInvariant ==
    pc = "provider returned" =>
        IF responses[1].success
        THEN responses[1].error_message = "absent"
        ELSE /\ responses[1].converted_amount = 0
             /\ responses[1].rate = 0
             /\ responses[1].error_message # "absent"

\* C19: an API3 payload received with HTTP status 200 whose statusCode is not
\* 200 yields a response with success = False, rate 0 and converted_amount 0,
\* whatever its data field holds.
C19_EmbeddedStatusIsFailure ==
    ( /\ ProviderCallOver
      /\ ProviderIs(3)
      /\ GotPayload
      /\ http.payload.t = "object"
      /\ ~(http.payload.statusCode.t = "number" /\ http.payload.statusCode.v = 200) )
    => /\ pc = "provider returned"
       /\ ~responses[1].success
       /\ responses[1].rate = 0
       /\ responses[1].converted_amount = 0

\* statusCode 400 beside a data.total that would convert: a failure with the payload's message
C19_Witness ==
    /\ pc = "provider returned"
    /\ ProviderIs(3)
    /\ GotPayload
    /\ http.payload.t = "object"
    /\ http.payload.statusCode = Number(400)
    /\ http.payload.data.t = "object"
    /\ http.payload.data.total = Number(1)
    /\ ~responses[1].success
    /\ responses[1].error_message = MessageText

\* C20 as stated: when the API3 payload has a statusCode other than 200, a
\* message text and a data field that is null or absent, the error_message of
\* the returned response is the payload's message text.
C20_ErrorMessageFromPayload ==
    ( /\ pc = "provider returned"
      /\ ProviderIs(3)
      /\ GotPayload
      /\ http.payload.t = "object"
      /\ http.payload.statusCode = Number(400)
      /\ http.payload.message.t = "text"
      /\ http.payload.data.t \in {"null", "absent"} )
    => responses[1].error_message = MessageText


\* ------------------------------------------------------ request construction
\* ExchangeRequest.__post_init__ (models/exchange_models.py, lines 14-27) on
\* raw arguments.  A str argument is the sequence of its characters; "eszett"
\* is the one character U+00DF, whose str.upper() is the two characters "SS".
MaxCodeLen == 4

CodeChars == {"u", "eszett"}

Strings(n) == UNION {[1..k -> CodeChars] : k \in 0..n}

Str(s) == [t |-> "str", s |-> s]
NotAStr == [t |-> "not str", s |-> <<>>]

CodeArgs == {Str(s) : s \in Strings(MaxCodeLen)} \cup {NotAStr}

\* int and float values, float("nan"), True, a str and None
AmountArgs ==
    {Number(n) : n \in (-1)..MaxRequestAmount} \cup {NaN, BoolTrue, NumericText(1), Null}

RequestArgs ==
    {[kind |-> "args", source_currency |-> s, target_currency |-> d, amount |-> a] :
        s \in CodeArgs, d \in CodeArgs, a \in AmountArgs}

NoRequest == [kind |-> "none"]

Returned(v) == [kind |-> "return", value |-> v]

\* str.upper() of one character
UpperChar(c) ==
    IF c = "u" THEN <<"U">>
    ELSE IF c = "eszett" THEN <<"S", "S">>
    ELSE <<c>>

\* str.upper() (lines 26-27)
RECURSIVE Upper(_)
Upper(s) == IF s = <<>> THEN <<>> ELSE UpperChar(Head(s)) \o Upper(Tail(s))

\* variant: only the type of a code is checked
CodeRejectedUnlessStr(c) == c.t # "str"

\* not isinstance(code, str) or len(code) != 3 (lines 16 and 19)
CodeRejected(c) == c.t # "str" \/ Len(c.s) # 3

\* isinstance(amount, (int, float)): bool is a subclass of int
IsIntOrFloat(a) == a.t \in {"number", "bool", "nan"}

\* amount <= 0: every comparison with NaN is False
NotPositive(a) == a.t # "nan" /\ a.v <= 0

\* variant: the amount is not checked
AmountNeverRejected(a) == FALSE

\* not isinstance(amount, (int, float)) or amount <= 0 (line 22)
AmountRejected(a) == ~IsIntOrFloat(a) \/ NotPositive(a)

\* __post_init__: the three checks in order, then the codes are uppercased
PostInit(a) ==
    IF CodeRejected(a.source_currency) THEN Raise("ValueError")
    ELSE IF CodeRejected(a.target_currency) THEN Raise("ValueError")
    ELSE IF AmountRejected(a.amount) THEN Raise("ValueError")
    ELSE Returned(ExchangeRequest(Upper(a.source_currency.s), Upper(a.target_currency.s),
                                  a.amount))

\* a caller about to construct an ExchangeRequest from raw arguments
InitRequest ==
    /\ args \in RequestArgs
    /\ request = NoRequest
    /\ pc = "construct"
    /\ api_providers = <<>>
    /\ max_concurrent_requests = 0
    /\ task = <<>>
    /\ calls = <<>>
    /\ responses = <<>>
    /\ sem_value = 0
    /\ sem_waiters = <<>>
    /\ result = NoResult
    /\ error = "none"
    /\ did = <<>>
    /\ queued = FALSE
    /\ completed_out_of_order = FALSE
    /\ http = NoHttp
    /\ history = <<>>
    /\ other = NoFrame

\* ExchangeRequest(source_currency, target_currency, amount)
Construct ==
    /\ pc = "construct"
    /\ LET r == PostInit(args) IN
         IF r.kind = "raise"
         THEN pc' = "invalid" /\ error' = r.exc /\ request' = request
         ELSE pc' = "constructed" /\ error' = error /\ request' = r.value
    /\ UNCHANGED <<args, http, history, other, api_providers, max_concurrent_requests, task, calls, responses,
                   sem_value, sem_waiters, result, did, queued, completed_out_of_order>>

NextRequest == Construct

SpecRequest == InitRequest /\ [][NextRequest]_vars


\* ------------------------------------------------- claims on the request
\* the argument is a str of exactly 3 characters
IsThreeCharStr(c) == c.t = "str" /\ Len(c.s) = 3

\* the argument is a number (int, float or bool) and greater than 0
IsPositiveNumber(a) == a.t \in {"number", "bool"} /\ a.v > 0

\* the argument is no number at all, or a number that is zero or negative
IsNonNumericZeroOrNegative(a) ==
    \/ a.t \notin {"number", "bool", "nan"}
    \/ a.t \in {"number", "bool"} /\ a.v <= 0

\* every character of the str is a lowercase letter
IsLowercase(c) == c.t = "str" /\ \A k \in 1..Len(c.s) : c.s[k] = "u"

\* the str with every lowercase letter replaced by its capital
Capitalised(s) == [k \in 1..Len(s) |-> IF s[k] = "u" THEN "U" ELSE s[k]]

\* C13: constructing an ExchangeRequest raises ValueError whenever a code is
\* not a str of exactly 3 characters or the amount is non-numeric, zero or
\* negative; with two 3-character codes and a positive number it succeeds,
\* and lowercase codes are stored as their capitals.
C13_ConstructionValidates ==
    pc # "construct" =>
        /\ (\/ ~IsThreeCharStr(args.source_currency)
            \/ ~IsThreeCharStr(args.target_currency)
            \/ IsNonNumericZeroOrNegative(args.amount))
              => (pc = "invalid" /\ error = "ValueError" /\ request = NoRequest)
        /\ (/\ IsThreeCharStr(args.source_currency)
            /\ IsThreeCharStr(args.target_currency)
            /\ IsPositiveNumber(args.amount))
              => (pc = "constructed" /\ error = "none"
                  /\ request.amount = args.amount
                  /\ (IsLowercase(args.source_currency) =>
                        request.source_currency = Capitalised(args.source_currency.s))
                  /\ (IsLowercase(args.target_currency) =>
                        request.target_currency = Capitalised(args.target_currency.s)))

\* a 4-character source code with a valid target and amount was refused
C13_Witness ==
    /\ pc = "invalid"
    /\ error = "ValueError"
    /\ args.source_currency = Str(<<"u", "u", "u", "u">>)
    /\ args.target_currency = Str(<<"u", "u", "u">>)
    /\ args.amount = Number(1)

\* C14: a constructed ExchangeRequest has stored codes of exactly 3
\* characters each, equal to their own uppercase form, and an amount
\* strictly greater than 0.
C14_ConstructedRequestInvariant ==
    pc = "constructed" =>
        /\ Len(request.source_currency) = 3
        /\ Len(request.target_currency) = 3
        /\ Upper(request.source_currency) = request.source_currency
        /\ Upper(request.target_currency) = request.target_currency
        /\ request.amount.t # "nan"
        /\ request.amount.v > 0


\* ------------------------------------------------------------ the application
\* ExchangeApplication (main.py): the three shipped providers behind an
\* ExchangeService built with the default max_concurrent_requests.
DefaultMaxConcurrent == 5

\* arguments of one call of the entry point: codes of 3 and of 2 letters,
\* a negative, a zero and a positive amount
AppArgs ==
    {[kind |-> "args", source_currency |-> s, target_currency |-> d, amount |-> Number(n)] :
        s \in {Str(<<"u", "u", "u">>), Str(<<"u", "u">>)},
        d \in {Str(<<"u", "u", "u">>), Str(<<"u", "u">>)},
        n \in (-1)..1}

\* ExchangeApplication.__init__ (lines 23-40), before get_best_exchange_rate runs
InitApp ==
    /\ api_providers = ShippedNames
    /\ max_concurrent_requests = DefaultMaxConcurrent
    /\ args \in AppArgs
    /\ request = NoRequest
    /\ pc = "app"
    /\ task = [i \in 1..3 |-> "none"]
    /\ calls = [i \in 1..3 |-> 0]
    /\ responses = [i \in 1..3 |-> Pending]
    /\ sem_value = 0
    /\ sem_waiters = <<>>
    /\ result = NoResult
    /\ error = "none"
    /\ did = [i \in 1..3 |-> "nothing"]
    /\ queued = FALSE
    /\ completed_out_of_order = FALSE
    /\ http = NoHttp
    /\ history = <<>>
    /\ other = NoFrame

\* ExchangeApplication.get_best_exchange_rate, lines 101-107 and 117-119: the
\* request is constructed first; its ValueError is logged and raised again,
\* otherwise the service is awaited with the request (line 111)
AppConstruct ==
    /\ pc = "app"
    /\ LET r == PostInit(args) IN
         IF r.kind = "raise"
         THEN pc' = "raised" /\ error' = r.exc /\ request' = request
         ELSE pc' = "idle" /\ error' = error /\ request' = r.value
    /\ UNCHANGED <<args, http, history, other, api_providers, max_concurrent_requests, task, calls, responses,
                   sem_value, sem_waiters, result, did, queued, completed_out_of_order>>

\* the service call behind the entry point.  The shipped providers return a
\* response or are cancelled (their except clauses catch every Exception), and
\* with 3 providers on 5 slots no task ever waits for a slot.
NextApp ==
    \/ AppConstruct
    \/ GetBestExchangeRate
    \/ \E i \in Providers : StartTask(i)
    \/ \E i \in Providers : ProviderSucceeds(i)
    \/ \E i \in Providers : ProviderFails(i)
    \/ \E i \in Providers : ProviderRaisesBaseException(i)
    \/ PropagateFault
    \/ Aggregate

SpecApp == InitApp /\ [][NextApp]_vars


\* -------------------------------------------------- claims on the application
\* the arguments hold a malformed currency code or a non-positive amount
ArgsMalformed ==
    \/ ~IsThreeCharStr(args.source_currency)
    \/ ~IsThreeCharStr(args.target_currency)
    \/ args.amount.v <= 0

\* C15: when the entry point is given a malformed currency code or a
\* non-positive amount, the validation error is raised before the service is
\* invoked: no provider's get_exchange_rate is called, no task is created and
\* no BestExchangeResult is produced.
C15_ValidationBeforeAggregation ==
    (pc # "app" /\ ArgsMalformed) =>
        /\ pc = "raised"
        /\ error = "ValueError"
        /\ result = NoResult
        /\ \A i \in 1..3 : calls[i] = 0 /\ task[i] = "none" /\ responses[i] = Pending

\* the entry point was called with a zero amount and has raised
C15_Witness ==
    /\ pc = "raised"
    /\ error = "ValueError"
    /\ args.amount = Number(0)
    /\ IsThreeCharStr(args.source_currency)
    /\ IsThreeCharStr(args.target_currency)
    /\ \A i \in 1..3 : calls[i] = 0


\* ------------------------------------------- further claims on the service
\* C16: selection compares converted_amount only: a successful response X
\* with a larger converted_amount than a successful response Y is preferred
\* to Y even when its rate is smaller; when X alone has the largest amount it
\* is the one returned, and best_rate is X's rate, not the largest rate.
C16_SelectionIgnoresRate ==
    pc = "returned" =>
        \A x \in Providers, y \in Providers :
            ( /\ Succeeded(x)
              /\ Succeeded(y)
              /\ responses[x].converted_amount > responses[y].converted_amount
              /\ responses[x].rate < responses[y].rate ) =>
                /\ result.best_provider # responses[y].provider_name
                /\ (\A z \in Providers \ {x} :
                        Succeeded(z) =>
                            responses[z].converted_amount < responses[x].converted_amount)
                     => /\ result.best_provider = responses[x].provider_name
                        /\ result.best_converted_amount = responses[x].converted_amount
                        /\ result.best_rate = responses[x].rate

\* the returned offer has a smaller rate than another successful response
C16_Witness ==
    /\ pc = "returned"
    /\ \E x \in Providers, y \in Providers :
          /\ Succeeded(x)
          /\ Succeeded(y)
          /\ responses[x].converted_amount > responses[y].converted_amount
          /\ responses[x].rate < responses[y].rate
          /\ result.best_provider = responses[x].provider_name
          /\ result.best_rate = responses[x].rate
          /\ result.best_rate < responses[y].rate

\* the task of the i-th provider has run its one call to the end
TaskCompleted(i) ==
    IF i <= Len(api_providers)
    THEN task[i] = "done" /\ calls[i] = 1 /\ did[i] # "nothing"
    ELSE FALSE

\* the task of the i-th provider is at position p while slots exist
TaskAt(i, p) ==
    IF i <= Len(api_providers) THEN max_concurrent_requests >= 1 /\ task[i] = p ELSE FALSE

\* the task of the i-th provider holds a slot or has given it back
TaskAdmitted(i) ==
    IF i <= Len(api_providers) THEN task[i] \in {"admitted", "running", "done"} ELSE FALSE

\* the response of provider i is what its own get_exchange_rate did
OwnResponse(i) ==
    /\ did[i] = "success" => Succeeded(i)
    /\ did[i] \in {"failed", "Exception"} => Failed(i)
    /\ IsWellFormed(responses[i]) => responses[i].provider_name = api_providers[i]

\* C17: a provider that fails, raises or is slow never cancels or prevents
\* another provider's call: with at least one slot every task is admitted and
\* runs its one call to the end, a response once produced is never changed,
\* and at return every provider's own response is in the partition and the
\* counts.
C17_OthersUnaffected ==
    /\ \A i \in 1..MaxProviders :
          TaskAt(i, "created") ~> TaskCompleted(i)
    /\ [][\A i \in Providers :
              (pc # "idle" /\ responses[i] # Pending) => responses'[i] = responses[i]]_vars
    /\ [](pc = "returned" =>
            /\ \A i \in Providers : task[i] = "done" /\ calls[i] = 1 /\ OwnResponse(i)
            /\ result.successful_providers = Cardinality({i \in Providers : Succeeded(i)})
            /\ result.failed_providers = Cardinality({i \in Providers : Failed(i)})
            /\ result.total_providers_queried = Len(api_providers))

\* one provider failed and one raised while a third, which had to wait for a
\* slot and finished out of order, succeeded and is counted
C17_Witness ==
    /\ pc = "returned"
    /\ queued
    /\ completed_out_of_order
    /\ result.successful_providers = 1
    /\ result.failed_providers = 2
    /\ \E i \in Providers, j \in Providers, k \in Providers :
          did[i] = "failed" /\ did[j] = "Exception" /\ Succeeded(k) /\ calls[k] = 1

\* C18: with at least one slot and provider calls that all come to an end,
\* every call of get_best_exchange_rate ends, with exactly one
\* BestExchangeResult that is never replaced, unless a provider raised a
\* BaseException or returned no response (the case of C10); every task
\* queued at the semaphore is eventually admitted.
C18_CallTerminatesOnce ==
    /\ (max_concurrent_requests >= 1) ~> (pc = "returned" \/ pc = "raised")
    /\ [](pc = "raised" => \E i \in Providers : did[i] \in {"BaseException", "None"})
    /\ [](pc # "returned" <=> result = NoResult)
    /\ [][pc = "returned" => (pc' = "returned" /\ result' = result)]_vars
    /\ \A i \in 1..MaxProviders :
          TaskAt(i, "waiting") ~> TaskAdmitted(i)

\* the call returned its result after some task had waited at the semaphore
C18_Witness ==
    /\ pc = "returned"
    /\ queued
    /\ max_concurrent_requests >= 1
    /\ result # NoResult
    /\ \A i \in Providers : task[i] = "done"


\* --------------------------------------------- claims on faults and frames
\* the message contains the part
Contains(msg, part) == \E k \in 1..Len(msg) : msg[k] = part

\* provider i raises an Exception with text t in this step
RaisesWith(i, t) == Finish(i, [kind |-> "Exception", text |-> t])

ResponseOf(i) ==
    CHOOSE r \in {responses[k] : k \in Providers} : r.provider_name = api_providers[i]

\* the configured providers whose response is successful
SuccessfulProviders == {i \in Providers : ResponseOf(i).success}

\* the earliest configured provider among those with the largest successful amount
BestProvider ==
    CHOOSE i \in SuccessfulProviders :
        \A j \in SuccessfulProviders :
            \/ ResponseOf(i).converted_amount > ResponseOf(j).converted_amount
            \/ ResponseOf(i).converted_amount = ResponseOf(j).converted_amount /\ i <= j

\* the result as a function of the request and of each provider's response alone
ExpectedResult ==
    IF SuccessfulProviders = {}
    THEN BestExchangeResult(Sentinel, 0, 0, request, Len(api_providers), 0, Len(api_providers))
    ELSE BestExchangeResult(api_providers[BestProvider], ResponseOf(BestProvider).rate,
                            ResponseOf(BestProvider).converted_amount, request,
                            Len(api_providers), Cardinality(SuccessfulProviders),
                            Len(api_providers) - Cardinality(SuccessfulProviders))

\* C22: whatever the order in which the calls were admitted and ended, the
\* responses are collected in the order of the configured providers and the
\* returned result is the one function of the request and of each provider's
\* own response (total_time_ms apart).
C22_ResultIndependentOfInterleaving ==
    pc = "returned" =>
        /\ \A i \in Providers : responses[i].provider_name = api_providers[i]
        /\ result = ExpectedResult

\* three calls on fewer slots ended out of provider order with two tied best
\* offers, and the earlier configured provider is the one returned
C22_Witness ==
    /\ pc = "returned"
    /\ queued
    /\ completed_out_of_order
    /\ Len(api_providers) = 3
    /\ Succeeded(2)
    /\ Succeeded(3)
    /\ ~responses[1].success
    /\ responses[2].converted_amount = responses[3].converted_amount
    /\ responses[2].rate # responses[3].rate
    /\ result.best_provider = api_providers[2]


\* ------------------------------------------------- several calls in a row
\* One service used for several get_best_exchange_rate calls, one after the
\* other (demo.py, run_demo): a provider may succeed in one call and fail in
\* the next.
MaxCalls == 2

\* the caller has its result and calls the service again: the frame of the
\* finished call (its tasks, semaphore and responses) is gone
CallAgain ==
    /\ pc = "returned"
    /\ Len(history) < MaxCalls - 1
    /\ history' = Append(history, [did |-> did, responses |-> responses, result |-> result])
    /\ pc' = "idle"
    /\ task' = [i \in Providers |-> "none"]
    /\ calls' = [i \in Providers |-> 0]
    /\ responses' = [i \in Providers |-> Pending]
    /\ sem_value' = 0
    /\ sem_waiters' = <<>>
    /\ result' = NoResult
    /\ error' = "none"
    /\ did' = [i \in Providers |-> "nothing"]
    /\ queued' = FALSE
    /\ completed_out_of_order' = FALSE
    /\ UNCHANGED <<args, http, other, api_providers, max_concurrent_requests, request>>

NextCalls ==
    \/ GetBestExchangeRate
    \/ \E i \in Providers : StartTask(i)
    \/ \E i \in Providers : ResumeTask(i)
    \/ \E i \in Providers : ProviderSucceedsWithOffer(i)
    \/ \E i \in Providers : ProviderFails(i)
    \/ Aggregate
    \/ CallAgain

SpecCalls == Init /\ [][NextCalls]_vars

\* C23: get_best_exchange_rate leaves api_providers and
\* max_concurrent_requests as they were, and each call of a sequence queries
\* every provider once and returns the result of that call's own responses,
\* whatever the providers did in the call before.
C23_NothingKeptBetweenCalls ==
    /\ [][/\ api_providers' = api_providers
          /\ max_concurrent_requests' = max_concurrent_requests]_vars
    /\ [](pc = "returned" =>
            /\ \A i \in Providers : calls[i] = 1 /\ did[i] # "nothing" /\ OwnResponse(i)
            /\ result = ExpectedResult)

\* second call: the provider that failed before succeeds and is counted, the
\* one that succeeded before fails
C23_Witness ==
    /\ pc = "returned"
    /\ Len(history) = 1
    /\ Len(api_providers) = 2
    /\ history[1].did[1] = "failed"
    /\ history[1].did[2] = "success"
    /\ history[1].result.best_provider = api_providers[2]
    /\ did[1] = "success"
    /\ did[2] = "failed"
    /\ result.best_provider = api_providers[1]
    /\ result.successful_providers = 1


\* ------------------------------------------- the request object in a call
\* ExchangeRequest is a plain dataclass: its fields can be assigned after
\* construction, __post_init__ does not run again, and the one object is
\* passed to every provider (line 46) and read for the result (lines 85-96).
AssignedRequests ==
    {[request EXCEPT !.amount = -5], [request EXCEPT !.source_currency = "x"]}

\* a provider assigns a field of the request during its call
ProviderAssignsRequest(i) ==
    /\ task[i] = "running"
    /\ request' \in AssignedRequests \ {request}
    /\ UNCHANGED <<args, http, history, other, api_providers, max_concurrent_requests, pc, task,
                   calls, responses, sem_value, sem_waiters, result, error, did, queued,
                   completed_out_of_order>>

NextSharedRequest ==
    \/ GetBestExchangeRate
    \/ \E i \in Providers : StartTask(i)
    \/ \E i \in Providers : ResumeTask(i)
    \/ \E i \in Providers : ProviderAssignsRequest(i)
    \/ \E i \in Providers : ProviderSucceedsWithOffer(i)
    \/ \E i \in Providers : ProviderFails(i)
    \/ Aggregate

SpecSharedRequest == Init /\ [][NextSharedRequest]_vars

\* the request as the caller constructed it
ConstructedRequest == ExchangeRequest("USD", "EUR", 1000)

\* C24 as stated: the request keeps the field values it was constructed with
\* in every reachable state (codes of 3 characters, amount > 0), and the
\* returned result echoes exactly those values.
C24_RequestImmutable ==
    /\ request = ConstructedRequest
    /\ request.amount > 0
    /\ pc = "returned" =>
          /\ result.source_currency = ConstructedRequest.source_currency
          /\ result.target_currency = ConstructedRequest.target_currency
          /\ result.original_amount = ConstructedRequest.amount


\* ---------------------------------------------- claims on the derived rate
\* the field of the payload that holds the converted total
TotalField ==
    IF ProviderIs(2) THEN http.payload.XML.Result ELSE http.payload.data.total

\* C25 as stated: every successful response of API2 and API3 has a
\* converted_amount equal to the total of the payload and a rate equal to
\* converted_amount / request.amount.  (A NaN equals nothing, itself included,
\* so both equalities need the total to be a number.)
C25_DerivedRateIsExact ==
    ( /\ pc = "provider returned"
      /\ ProviderIs(2) \/ ProviderIs(3)
      /\ responses[1].success )
    => LET total == PyFloat(TotalField)
       IN  /\ ~total.nan
           /\ responses[1].converted_amount = total.v
           /\ responses[1].rate = Quotient(responses[1].converted_amount, request.amount)


\* ------------------------------------------------ claims on the slots
\* tasks that were handed a slot by release() and have not resumed yet
HandedOver == {i \in Providers : task[i] = "admitted"}

\* tasks inside "async with semaphore"
SlotHolders == InFlight \cup HandedOver

\* the statement as written: the slots not free are exactly the provider calls
\* in flight, and all slots are free once the call has returned
C26_SlotsHeldAreCallsInFlight ==
    pc # "idle" =>
        /\ max_concurrent_requests - sem_value = Cardinality(InFlight)
        /\ Cardinality(InFlight) + sem_value = max_concurrent_requests
        /\ pc = "returned" => sem_value = max_concurrent_requests

\* C26: in every state of a get_best_exchange_rate call the slots held plus the
\* slots free are max_concurrent_requests, where a slot is held by each
\* provider call in flight and by each task that release() has handed a slot to
\* and that has not started its call yet; without such a task the slots held
\* are exactly the calls in flight.  A slot is given back when the call returns
\* and when it raises, so no finished task holds one, and when
\* get_best_exchange_rate has returned all slots are free.
C26_SlotAccounting ==
    pc # "idle" =>
        /\ Cardinality(SlotHolders) + sem_value = max_concurrent_requests
        /\ HandedOver = {} =>
               max_concurrent_requests - sem_value = Cardinality(InFlight)
        /\ \A i \in Providers : did[i] # "nothing" => i \notin SlotHolders
        /\ pc = "returned" =>
               (sem_value = max_concurrent_requests /\ SlotHolders = {})

\* a call raised an Exception, its slot went to the waiting third task, which
\* has not started its call: two slots held, one call in flight
C26_Witness ==
    /\ pc = "gather"
    /\ max_concurrent_requests = 2
    /\ Len(api_providers) = 3
    /\ did[1] = "Exception"
    /\ task = <<"done", "running", "admitted">>
    /\ sem_value = 0


\* ------------------------------------------------- two calls that overlap
\* everything get_best_exchange_rate keeps in its own frame: its position, the
\* semaphore it created, its tasks and what they returned
Frame ==
    [kind |-> "frame", pc |-> pc, task |-> task, calls |-> calls,
     responses |-> responses, sem_value |-> sem_value, sem_waiters |-> sem_waiters,
     result |-> result, error |-> error, did |-> did, queued |-> queued,
     completed_out_of_order |-> completed_out_of_order]

\* a second get_best_exchange_rate is called on the same service while the
\* first awaits gather: it runs lines 38-49 with a semaphore of its own; the
\* frame of the first call is set aside
SecondCall ==
    /\ pc = "gather"
    /\ other = NoFrame
    /\ other' = Frame
    /\ pc' = "gather"
    /\ sem_value' = max_concurrent_requests
    /\ sem_waiters' = <<>>
    /\ task' = [i \in Providers |-> "created"]
    /\ calls' = [i \in Providers |-> 0]
    /\ responses' = [i \in Providers |-> Pending]
    /\ result' = NoResult
    /\ error' = "none"
    /\ did' = [i \in Providers |-> "nothing"]
    /\ queued' = FALSE
    /\ completed_out_of_order' = FALSE
    /\ UNCHANGED <<args, http, history, api_providers, max_concurrent_requests, request>>

\* the event loop goes on with a step of the other call
SwitchCall ==
    /\ other.kind = "frame"
    /\ other' = Frame
    /\ pc' = other.pc
    /\ task' = other.task
    /\ calls' = other.calls
    /\ responses' = other.responses
    /\ sem_value' = other.sem_value
    /\ sem_waiters' = other.sem_waiters
    /\ result' = other.result
    /\ error' = other.error
    /\ did' = other.did
    /\ queued' = other.queued
    /\ completed_out_of_order' = other.completed_out_of_order
    /\ UNCHANGED <<args, http, history, api_providers, max_concurrent_requests, request>>

NextOverlap ==
    \/ GetBestExchangeRate
    \/ SecondCall
    \/ SwitchCall
    \/ \E i \in Providers : StartTask(i)
    \/ \E i \in Providers : ResumeTask(i)
    \/ \E i \in Providers : ProviderSucceedsWithOffer(i)
    \/ Aggregate

SpecOverlap == Init /\ [][NextOverlap]_vars

\* the provider calls in flight, the tasks holding a slot and the gate of the
\* call whose frame is set aside
OtherInFlight ==
    IF other.kind = "frame" THEN {i \in Providers : other.task[i] = "running"} ELSE {}

OtherSlotHolders ==
    IF other.kind = "frame"
    THEN {i \in Providers : other.task[i] \in {"running", "admitted"}}
    ELSE {}

OtherWaiters == IF other.kind = "frame" THEN other.sem_waiters ELSE <<>>

OtherSemValue == IF other.kind = "frame" THEN other.sem_value ELSE 0

\* C27: the limit is per call.  Each of two overlapping calls has its own gate
\* of max_concurrent_requests slots: each call has at most that many provider
\* calls in flight (together at most twice as many, a number that is reached),
\* and a task of one call waits only while all slots of its own call's gate are
\* held by tasks of that same call, whatever the other call holds.
C27_CapIsPerCall ==
    /\ Cardinality(InFlight) <= max_concurrent_requests
    /\ Cardinality(OtherInFlight) <= max_concurrent_requests
    /\ sem_waiters # <<>> =>
           (sem_value = 0 /\ Cardinality(SlotHolders) = max_concurrent_requests)
    /\ OtherWaiters # <<>> =>
           (OtherSemValue = 0 /\ Cardinality(OtherSlotHolders) = max_concurrent_requests)

\* two calls overlap, each with both of its slots in use and its third task
\* queued: 2 * 2 provider calls are in flight
C27_Witness ==
    /\ max_concurrent_requests = 2
    /\ Len(api_providers) = 3
    /\ Cardinality(InFlight) = 2
    /\ Cardinality(OtherInFlight) = 2
    /\ sem_waiters = <<3>>
    /\ OtherWaiters = <<3>>


\* ------------------------------------------- claims on the corner cases
\* C28: __init__ accepts max_concurrent_requests = 0.  With at least one
\* provider such a service never admits a provider call (no task gets a slot,
\* no get_exchange_rate is invoked) and get_best_exchange_rate never leaves its
\* await: it neither returns a result nor raises.
C28_ZeroSlotsNeverReturns ==
    (max_concurrent_requests = 0 /\ Len(api_providers) >= 1) =>
        /\ pc \in {"idle", "gather"}
        /\ result = NoResult
        /\ error = "none"
        /\ \A i \in Providers :
               /\ calls[i] = 0
               /\ task[i] \in {"none", "created", "waiting"}

\* a service with no slot and three providers: the call is awaiting gather and
\* every task is queued
C28_Witness ==
    /\ max_concurrent_requests = 0
    /\ Len(api_providers) = 3
    /\ pc = "gather"
    /\ sem_waiters = <<1, 2, 3>>
    /\ \A i \in Providers : task[i] = "waiting"

\* C29: with an empty provider list get_best_exchange_rate calls no provider,
\* does not raise and returns the no-success result: best_provider "NINGUNO",
\* best_rate 0, best_converted_amount 0, total_providers_queried =
\* successful_providers = failed_providers = 0.
C29_NoProviders ==
    Len(api_providers) = 0 =>
        /\ pc # "raised"
        /\ error = "none"
        /\ DOMAIN calls = {}
        /\ pc = "returned" =>
               result = BestExchangeResult(Sentinel, 0, 0, request, 0, 0, 0)
        /\ pc = "returned" => result.best_provider = "NINGUNO"

\* the call of a service without providers has returned
C29_Witness ==
    /\ Len(api_providers) = 0
    /\ pc = "returned"
    /\ result.total_providers_queried = 0

\* the names of the providers whose response is successful
SucceededNames == {api_providers[i] : i \in {j \in Providers : Succeeded(j)}}

\* C30: no provider being named like the sentinel, the returned result has the
\* sentinel best_provider exactly when successful_providers = 0.  When some
\* provider succeeded, also with a converted amount of 0 or below,
\* best_provider is the name of a provider that succeeded and
\* successful_providers >= 1.
C30_SentinelIffNoSuccess ==
    (pc = "returned" /\ \A i \in Providers : api_providers[i] # Sentinel) =>
        /\ result.best_provider = Sentinel <=> result.successful_providers = 0
        /\ result.successful_providers = Cardinality({i \in Providers : Succeeded(i)})
        /\ SucceededNames # {} =>
               /\ result.best_provider \in SucceededNames
               /\ result.successful_providers >= 1

\* two providers succeeded, one with a negative converted amount and the best
\* one with 0, and a further provider failed
C30_Witness ==
    /\ pc = "returned"
    /\ result.best_converted_amount = 0
    /\ result.best_provider \in SucceededNames
    /\ result.successful_providers = 2
    /\ result.failed_providers = 1
    /\ \E i \in Providers : Succeeded(i) /\ responses[i].converted_amount < 0

====
